---- MODULE Spec2Model ----
(***************************************************************************)
(* Model of the graph store (backend/models/graph.py), the detection       *)
(* engine (backend/algorithms/detection.py), the topology generator        *)
(* (backend/algorithms/simulation.py) and the threshold handler            *)
(* (backend/main.py) of Cyber-Attack-detector.                             *)
(*                                                                         *)
(* NetworkGraph keeps two indexes: the attribute records (self.nodes,      *)
(* self.edges, Python dicts) and the adjacency index (self.graph, a        *)
(* networkx DiGraph).  Both are state here.  Dicts are modelled as         *)
(* functions; the DiGraph as its node iteration order (gorder) and its     *)
(* edge map (gadj).  Predecessor / successor lists are modelled as sets    *)
(* (they hold distinct ids; their order is the adjacency insertion order). *)
(***************************************************************************)
EXTENDS Integers, Sequences, FiniteSets, TLC

VARIABLES
    nodes,      \* NetworkGraph.nodes : id -> node attributes
    edges,      \* NetworkGraph.edges : <<source, target>> -> edge attributes
    gorder,     \* NetworkGraph.graph : nodes of the DiGraph, in iteration order
    gadj,       \* NetworkGraph.graph : <<source, target>> -> edge data of the DiGraph
    thr,        \* NetworkGraph.attack_thresholds
    history,    \* AttackDetector.detection_history
    call,       \* the last operation called and its arguments
    result,     \* the alert list the last operation returned (<<>> if none)
    stats,      \* what the last get_attack_statistics call returned
    raised      \* the exception the last operation raised, "none" if it returned

vars == <<nodes, edges, gorder, gadj, thr, history, call, result, stats, raised>>

-----------------------------------------------------------------------------
(* Bounds of the model. *)

\* most edge records the store holds in the mutation specifications
MaxEdges == 2
\* most alerts the history holds in the full specification
MaxHist == 2
\* most nodes of a graph drawn as an analyzer input
MaxNodes == 6
\* largest threshold set or passed to an analyzer (the smallest is -1)
MaxThreshold == 2

-----------------------------------------------------------------------------
(* Ids and attributes. *)

\* f"node_{i}" of generate_network_topology, preceded by the empty-string id
IdList ==
    <<"", "node_0", "node_1", "node_2", "node_3", "node_4", "node_5", "node_6",
      "node_7", "node_8">>

NodeName(i) == IdList[i + 2]

FirstIds(n) == {IdList[i] : i \in 1..n}

\* ids a caller supplies to the store in the mutation specification
StoreIds == FirstIds(3)

\* ids a caller supplies where attributes are told apart
SmallIds == FirstIds(2)

\* the attribute payload of a node or an edge (ip, node_type, weight, port, ...)
Attrs == {"v1", "v2"}

\* the one payload used where the claims do not look at attributes
OneAttr == {"v1"}

\* Optional[...] arguments: <<>> is None, <<x>> is x
None == <<>>
Some(x) == <<x>>
IsNone(o) == o = <<>>
Value(o) == o[1]

-----------------------------------------------------------------------------
(* Python dict / DiGraph primitives. *)

EmptyMap == [k \in {} |-> "v1"]

Put(m, k, v) == [x \in (DOMAIN m) \cup {k} |-> IF x = k THEN v ELSE m[x]]

Del(m, k) == [x \in (DOMAIN m) \ {k} |-> m[x]]

Range(s) == {s[i] : i \in 1..Len(s)}

RECURSIVE Without(_, _)
Without(s, x) ==
    IF s = <<>> THEN <<>>
    ELSE IF Head(s) = x THEN Without(Tail(s), x)
    ELSE <<Head(s)>> \o Without(Tail(s), x)

\* DiGraph.add_node: a new node goes to the end of the iteration order
GraphAddNode(order, n) == IF n \in Range(order) THEN order ELSE Append(order, n)

\* DiGraph.add_edge: both endpoints are added if missing, source first
GraphAddEdgeOrder(order, s, t) == GraphAddNode(GraphAddNode(order, s), t)

\* DiGraph.remove_node: the node and every edge incident to it
GraphRemoveNodeAdj(adj, n) ==
    [e \in {k \in DOMAIN adj : k[1] # n /\ k[2] # n} |-> adj[e]]

InDegree(adj, n) == Cardinality({e \in DOMAIN adj : e[2] = n})

OutDegree(adj, n) == Cardinality({e \in DOMAIN adj : e[1] = n})

Predecessors(adj, n) == {e[1] : e \in {k \in DOMAIN adj : k[2] = n}}

Neighbors(adj, n) == {e[2] : e \in {k \in DOMAIN adj : k[1] = n}}

-----------------------------------------------------------------------------
(* The state after construction: NetworkGraph(), AttackDetector(graph). *)

DefaultThresholds ==
    [ddos_indegree |-> 50, port_scan_outdegree |-> 30, worm_reachability |-> 100,
     c2_indegree_min |-> 10, c2_outdegree_max |-> 5]

NoStats == [kind |-> "none"]

Init ==
    /\ nodes = EmptyMap
    /\ edges = EmptyMap
    /\ gorder = <<>>
    /\ gadj = EmptyMap
    /\ thr = DefaultThresholds
    /\ history = <<>>
    /\ call = [op |-> "init"]
    /\ result = <<>>
    /\ stats = NoStats
    /\ raised = "none"

-----------------------------------------------------------------------------
(* NetworkGraph mutations. *)

AddNode(id, attr) ==
    /\ nodes' = Put(nodes, id, attr)
    /\ gorder' = GraphAddNode(gorder, id)
    /\ call' = [op |-> "add_node", id |-> id, attr |-> attr]
    /\ result' = <<>>
    /\ raised' = "none"
    /\ UNCHANGED <<edges, gadj, thr, history, stats>>

AddEdge(s, t, attr) ==
    /\ \/ <<s, t>> \in DOMAIN edges
       \/ Cardinality(DOMAIN edges) < MaxEdges
    /\ edges' = Put(edges, <<s, t>>, attr)
    /\ gorder' = GraphAddEdgeOrder(gorder, s, t)
    /\ gadj' = Put(gadj, <<s, t>>, attr)
    /\ call' = [op |-> "add_edge", source |-> s, target |-> t, attr |-> attr]
    /\ result' = <<>>
    /\ raised' = "none"
    /\ UNCHANGED <<nodes, thr, history, stats>>

\* what remove_node leaves in self.edges
EdgesAfterRemoveNode(es, id) == es

RemoveNode(id) ==
    /\ IF id \in DOMAIN nodes
       THEN /\ nodes' = Del(nodes, id)
            /\ edges' = EdgesAfterRemoveNode(edges, id)
            /\ gorder' = Without(gorder, id)
            /\ gadj' = GraphRemoveNodeAdj(gadj, id)
       ELSE UNCHANGED <<nodes, edges, gorder, gadj>>
    /\ call' = [op |-> "remove_node", id |-> id, present |-> id \in DOMAIN nodes]
    /\ result' = <<>>
    /\ raised' = "none"
    /\ UNCHANGED <<thr, history, stats>>

\* DiGraph.remove_edge raises NetworkXError when the edge is not in the graph;
\* the record in self.edges is deleted before that call
RemoveEdge(s, t) ==
    /\ IF <<s, t>> \in DOMAIN edges
       THEN /\ edges' = Del(edges, <<s, t>>)
            /\ IF <<s, t>> \in DOMAIN gadj
               THEN gadj' = Del(gadj, <<s, t>>) /\ raised' = "none"
               ELSE gadj' = gadj /\ raised' = "NetworkXError"
       ELSE /\ UNCHANGED <<edges, gadj>>
            /\ raised' = "none"
    /\ call' = [op |-> "remove_edge", source |-> s, target |-> t]
    /\ result' = <<>>
    /\ UNCHANGED <<nodes, gorder, thr, history, stats>>

-----------------------------------------------------------------------------
(* Alerts.  confidence is a float in the code; here it is the exact rational *)
(* <<numerator, denominator>> in lowest terms with a positive denominator.   *)
(* timestamp (always 0.0) and description (derived text) are left out.       *)

RECURSIVE GCD(_, _)
GCD(a, b) == IF b = 0 THEN a ELSE GCD(b, a % b)

Abs(x) == IF x < 0 THEN -x ELSE x

\* n / d for d # 0
Ratio(n, d) ==
    LET g == GCD(Abs(n), Abs(d))
        sgn == IF d < 0 THEN -1 ELSE 1
    IN  <<(sgn * n) \div g, (sgn * d) \div g>>

One == <<1, 1>>

Zero == <<0, 1>>

QLess(a, b) == a[1] * b[2] < b[1] * a[2]

\* min(1.0, x)
MinOne(x) == IF QLess(One, x) THEN One ELSE x

Alert(type, sources, targets, conf, sev) ==
    [attack_type |-> type, source_nodes |-> sources, target_nodes |-> targets,
     confidence |-> conf, severity |-> sev]

\* what a call gives back: the alert list, or the exception that left it
Return(alerts) == [exc |-> "none", alerts |-> alerts]
Raise(e) == [exc |-> e, alerts |-> <<>>]

-----------------------------------------------------------------------------
(* AttackDetector.detect_ddos_attack *)

\* confidence=min(1.0, indegree / (threshold * 2))
DDoSConfidence(indegree, threshold) == MinOne(Ratio(indegree, threshold * 2))

\* if indegree > threshold
DDoSFlagged(indegree, threshold) == indegree > threshold

RECURSIVE DDoSLoop(_, _, _)
DDoSLoop(order, adj, threshold) ==
    IF order = <<>> THEN <<>>
    ELSE LET node_id == Head(order)
             indegree == InDegree(adj, node_id)
         IN  (IF DDoSFlagged(indegree, threshold)
              THEN <<Alert("ddos", Predecessors(adj, node_id), {node_id},
                           DDoSConfidence(indegree, threshold),
                           IF indegree > threshold * 2 THEN "high" ELSE "medium")>>
              ELSE <<>>)
             \o DDoSLoop(Tail(order), adj, threshold)

\* override is the threshold argument (None: read attack_thresholds)
DetectDDoS(order, adj, thresholds, override) ==
    LET threshold == IF IsNone(override) THEN thresholds.ddos_indegree
                     ELSE Value(override)
    IN  IF threshold * 2 = 0
           /\ \E n \in Range(order) : DDoSFlagged(InDegree(adj, n), threshold)
        THEN Raise("ZeroDivisionError")
        ELSE Return(DDoSLoop(order, adj, threshold))

-----------------------------------------------------------------------------
(* AttackDetector.detect_botnet_attack *)

RECURSIVE Flatten(_)
Flatten(ss) == IF ss = <<>> THEN <<>> ELSE Head(ss) \o Flatten(Tail(ss))

\* the elements of order that are in set, in order
Restrict(order, set) == SelectSeq(order, LAMBDA n : n \in set)

\* the elementary cycles through root that start at root and stay within allowed
RECURSIVE CyclesFrom(_, _, _, _, _)
CyclesFrom(order, adj, root, allowed, path) ==
    LET last == path[Len(path)]
        closing == IF <<last, root>> \in DOMAIN adj THEN <<path>> ELSE <<>>
        nexts == Restrict(order, (Neighbors(adj, last) \cap allowed) \ Range(path))
    IN  closing
        \o Flatten([i \in 1..Len(nexts) |->
                      CyclesFrom(order, adj, root, allowed, Append(path, nexts[i]))])

\* nx.simple_cycles(G): every elementary cycle once, as a list of its nodes;
\* here each cycle starts at its first node in iteration order
SimpleCycles(order, adj) ==
    Flatten([i \in 1..Len(order) |->
               CyclesFrom(order, adj, order[i],
                          {order[j] : j \in (i + 1)..Len(order)}, <<order[i]>>)])

\* if len(cycle) >= 3
BotnetFlagged(cycle) == Len(cycle) >= 3

\* high only above five nodes
BotnetSeverityAboveFive(cycle) == IF Len(cycle) > 5 THEN "high" ELSE "medium"

\* severity="high" if len(cycle) >= 5 else "medium"
BotnetSeverity(cycle) == IF Len(cycle) >= 5 THEN "high" ELSE "medium"

BotnetAlert(cycle) ==
    Alert("botnet", cycle, cycle, MinOne(Ratio(Len(cycle), 10)), BotnetSeverity(cycle))

DetectBotnet(order, adj) ==
    LET cycles == SimpleCycles(order, adj)
        flagged == SelectSeq(cycles, BotnetFlagged)
    IN  Return([i \in 1..Len(flagged) |-> BotnetAlert(flagged[i])])

-----------------------------------------------------------------------------
(* AttackDetector.detect_port_scan_attack *)

RECURSIVE PortScanLoop(_, _, _)
PortScanLoop(order, adj, threshold) ==
    IF order = <<>> THEN <<>>
    ELSE LET node_id == Head(order)
             outdegree == OutDegree(adj, node_id)
         IN  (IF outdegree > threshold
              THEN <<Alert("port_scan", {node_id}, Neighbors(adj, node_id),
                           MinOne(Ratio(outdegree, threshold * 2)), "medium")>>
              ELSE <<>>)
             \o PortScanLoop(Tail(order), adj, threshold)

DetectPortScan(order, adj, thresholds, override) ==
    LET threshold == IF IsNone(override) THEN thresholds.port_scan_outdegree
                     ELSE Value(override)
    IN  IF threshold * 2 = 0 /\ \E n \in Range(order) : OutDegree(adj, n) > threshold
        THEN Raise("ZeroDivisionError")
        ELSE Return(PortScanLoop(order, adj, threshold))

-----------------------------------------------------------------------------
(* AttackDetector._bfs_reachable and detect_worm_propagation *)

\* some enumeration of a set (the order in which neighbors are queued)
RECURSIVE SeqOf(_)
SeqOf(set) ==
    IF set = {} THEN <<>>
    ELSE LET x == CHOOSE y \in set : TRUE IN <<x>> \o SeqOf(set \ {x})

RECURSIVE BfsLoop(_, _, _)
BfsLoop(adj, queue, visited) ==
    IF queue = <<>> THEN visited
    ELSE LET current == Head(queue)
             fresh == Neighbors(adj, current) \ visited
         IN  BfsLoop(adj, Tail(queue) \o SeqOf(fresh), visited \cup fresh)

\* a traversal that does not mark the start node
BfsUnmarkedStart(adj, start_node) == BfsLoop(adj, <<start_node>>, {})

\* list(visited): the start node is marked visited before the loop
BfsReachable(adj, start_node) == BfsLoop(adj, <<start_node>>, {start_node})

\* the fan-out floor of the candidates when no start node is given
WormFanOutFloor == 5

\* [start_node] if start_node else [...]: None and "" are both falsy
WormCandidates(order, adj, start_node) ==
    IF ~IsNone(start_node) /\ Value(start_node) # ""
    THEN <<Value(start_node)>>
    ELSE SelectSeq(order, LAMBDA n : OutDegree(adj, n) > WormFanOutFloor)

\* if len(reachable_nodes) > threshold
WormFlagged(reachable, threshold) == Cardinality(reachable) > threshold

RECURSIVE WormLoop(_, _, _, _)
WormLoop(candidates, order, adj, threshold) ==
    IF candidates = <<>> THEN <<>>
    ELSE LET candidate == Head(candidates)
             reachable == BfsReachable(adj, candidate)
             size == Cardinality(reachable)
         IN  (IF candidate \in Range(order) /\ WormFlagged(reachable, threshold)
              THEN <<Alert("worm", {candidate}, reachable,
                           MinOne(Ratio(size, threshold * 2)),
                           IF size > threshold * 2 THEN "high" ELSE "medium")>>
              ELSE <<>>)
             \o WormLoop(Tail(candidates), order, adj, threshold)

DetectWorm(order, adj, thresholds, start_node, override) ==
    LET threshold == IF IsNone(override) THEN thresholds.worm_reachability
                     ELSE Value(override)
        candidates == WormCandidates(order, adj, start_node)
    IN  IF threshold * 2 = 0
           /\ \E i \in 1..Len(candidates) :
                 /\ candidates[i] \in Range(order)
                 /\ WormFlagged(BfsReachable(adj, candidates[i]), threshold)
        THEN Raise("ZeroDivisionError")
        ELSE Return(WormLoop(candidates, order, adj, threshold))

-----------------------------------------------------------------------------
(* AttackDetector.detect_c2_attack *)

\* the indegree test made strict
C2FlaggedStrict(adj, n, thresholds) ==
    /\ InDegree(adj, n) > thresholds.c2_indegree_min
    /\ OutDegree(adj, n) <= thresholds.c2_outdegree_max

C2Flagged(adj, n, thresholds) ==
    /\ InDegree(adj, n) >= thresholds.c2_indegree_min
    /\ OutDegree(adj, n) <= thresholds.c2_outdegree_max

RECURSIVE C2Loop(_, _, _)
C2Loop(order, adj, thresholds) ==
    IF order = <<>> THEN <<>>
    ELSE LET node_id == Head(order)
             indegree == InDegree(adj, node_id)
             min_indegree == thresholds.c2_indegree_min
         IN  (IF C2Flagged(adj, node_id, thresholds)
              THEN <<Alert("c2", Predecessors(adj, node_id), {node_id},
                           MinOne(Ratio(indegree, min_indegree * 2)),
                           IF indegree > min_indegree * 3 THEN "high" ELSE "medium")>>
              ELSE <<>>)
             \o C2Loop(Tail(order), adj, thresholds)

\* C2 detection with the thresholds the store was constructed with
DetectC2AtConstruction(order, adj, thresholds) ==
    IF DefaultThresholds.c2_indegree_min * 2 = 0
       /\ \E n \in Range(order) : C2Flagged(adj, n, DefaultThresholds)
    THEN Raise("ZeroDivisionError")
    ELSE Return(C2Loop(order, adj, DefaultThresholds))

DetectC2(order, adj, thresholds) ==
    IF thresholds.c2_indegree_min * 2 = 0
       /\ \E n \in Range(order) : C2Flagged(adj, n, thresholds)
    THEN Raise("ZeroDivisionError")
    ELSE Return(C2Loop(order, adj, thresholds))

-----------------------------------------------------------------------------
(* AttackDetector.detect_all_attacks *)

\* severity_order = {"high": 3, "medium": 2, "low": 1}
SeverityOrder(sev) ==
    CASE sev = "high" -> 3
      [] sev = "medium" -> 2
      [] sev = "low" -> 1

\* the sort key (severity_order[x.severity], x.confidence), compared as tuples
KeyLess(a, b) ==
    \/ SeverityOrder(a.severity) < SeverityOrder(b.severity)
    \/ /\ SeverityOrder(a.severity) = SeverityOrder(b.severity)
       /\ QLess(a.confidence, b.confidence)

\* a sort that puts x before the elements whose key equals its own
RECURSIVE InsertDescUnstable(_, _)
InsertDescUnstable(sorted, x) ==
    IF sorted = <<>> THEN <<x>>
    ELSE IF ~KeyLess(x, Head(sorted)) THEN <<x>> \o sorted
    ELSE <<Head(sorted)>> \o InsertDescUnstable(Tail(sorted), x)

\* list.sort(key=..., reverse=True) is stable: x goes behind every element whose
\* key is not smaller than its own
RECURSIVE InsertDesc(_, _)
InsertDesc(sorted, x) ==
    IF sorted = <<>> THEN <<x>>
    ELSE IF KeyLess(Head(sorted), x) THEN <<x>> \o sorted
    ELSE <<Head(sorted)>> \o InsertDesc(Tail(sorted), x)

RECURSIVE SortInto(_, _)
SortInto(sorted, rest) ==
    IF rest = <<>> THEN sorted
    ELSE SortInto(InsertDesc(sorted, Head(rest)), Tail(rest))

SortAlerts(alerts) == SortInto(<<>>, alerts)

\* the five analyzers in the order detect_all_attacks calls them
AnalyzerRuns(order, adj, thresholds) ==
    <<DetectDDoS(order, adj, thresholds, None),
      DetectBotnet(order, adj),
      DetectPortScan(order, adj, thresholds, None),
      DetectWorm(order, adj, thresholds, None, None),
      DetectC2(order, adj, thresholds)>>

\* all_alerts after the five extend calls
Emitted(runs) == Flatten([i \in 1..Len(runs) |-> runs[i].alerts])

\* the first analyzer that raises ends the pass with its exception
DetectAllOutcome(order, adj, thresholds) ==
    LET runs == AnalyzerRuns(order, adj, thresholds)
        failed == {i \in 1..Len(runs) : runs[i].exc # "none"}
    IN  IF failed # {}
        THEN Raise(runs[CHOOSE i \in failed : \A j \in failed : i <= j].exc)
        ELSE Return(SortAlerts(Emitted(runs)))

\* the history replaced by the batch
HistoryReplaced(h, batch) == batch

\* self.detection_history.extend(all_alerts)
HistoryExtend(h, batch) == h \o batch

\* a pass that stores the alerts of each analyzer as it returns
HistoryAfterEachAnalyzer(h, order, adj, thresholds) ==
    LET runs == AnalyzerRuns(order, adj, thresholds)
        outcome == DetectAllOutcome(order, adj, thresholds)
        failed == {i \in 1..Len(runs) : runs[i].exc # "none"}
        first == CHOOSE i \in failed : \A j \in failed : i <= j
    IN  IF failed = {} THEN HistoryExtend(h, outcome.alerts)
        ELSE HistoryExtend(h, Emitted(SubSeq(runs, 1, first - 1)))

\* the history is extended after the five analyzers and the sort, so an
\* exception out of an analyzer leaves it as it was
HistoryAfterPass(h, order, adj, thresholds) ==
    LET outcome == DetectAllOutcome(order, adj, thresholds)
    IN  IF outcome.exc = "none" THEN HistoryExtend(h, outcome.alerts) ELSE h

-----------------------------------------------------------------------------
(* AttackDetector.get_attack_statistics *)

AttackTypes == {"ddos", "botnet", "port_scan", "worm", "c2"}

CountWhere(h, Test(_)) == Cardinality({i \in 1..Len(h) : Test(h[i])})

\* confidence > 0.8
HighConfidence(alert) == QLess(<<4, 5>>, alert.confidence)

\* statistics that count every distinct alert once
StatisticsDistinct(h) ==
    IF h = <<>> THEN [kind |-> "empty"]
    ELSE LET seen == Range(h)
         IN  [kind |-> "data",
              total_attacks |-> Cardinality(seen),
              attack_types |->
                  [t \in {a.attack_type : a \in seen} |->
                      Cardinality({a \in seen : a.attack_type = t})],
              severity_distribution |->
                  [v \in {a.severity : a \in seen} |->
                      Cardinality({a \in seen : a.severity = v})],
              high_confidence_attacks |->
                  Cardinality({a \in seen : HighConfidence(a)})]

\* {} on an empty history, the four counts otherwise; the count dicts hold
\* only the keys that occur
Statistics(h) ==
    IF h = <<>> THEN [kind |-> "empty"]
    ELSE [kind |-> "data",
          total_attacks |-> Len(h),
          attack_types |->
              [t \in {h[i].attack_type : i \in 1..Len(h)} |->
                  CountWhere(h, LAMBDA a : a.attack_type = t)],
          severity_distribution |->
              [v \in {h[i].severity : i \in 1..Len(h)} |->
                  CountWhere(h, LAMBDA a : a.severity = v)],
          high_confidence_attacks |-> CountWhere(h, HighConfidence)]

-----------------------------------------------------------------------------
(* Detection engine calls. *)

\* an analyzer call leaves everything but the call's outcome alone
Analyze(op, args, outcome) ==
    /\ call' = [op |-> op, args |-> args]
    /\ result' = outcome.alerts
    /\ raised' = outcome.exc
    /\ UNCHANGED <<nodes, edges, gorder, gadj, thr, history, stats>>

DetectDDoSCall(override) ==
    Analyze("detect_ddos", <<override>>, DetectDDoS(gorder, gadj, thr, override))

DetectBotnetCall ==
    Analyze("detect_botnet", <<>>, DetectBotnet(gorder, gadj))

DetectPortScanCall(override) ==
    Analyze("detect_port_scan", <<override>>, DetectPortScan(gorder, gadj, thr, override))

\* a worm call that enters a supplied start node into the adjacency index
DetectWormCallAddingStart(start_node, override) ==
    LET outcome == DetectWorm(gorder, gadj, thr, start_node, override)
    IN  /\ call' = [op |-> "detect_worm", args |-> <<start_node, override>>]
        /\ result' = outcome.alerts
        /\ raised' = outcome.exc
        /\ gorder' = IF IsNone(start_node) THEN gorder
                      ELSE GraphAddNode(gorder, Value(start_node))
        /\ UNCHANGED <<nodes, edges, gadj, thr, history, stats>>

DetectWormCall(start_node, override) ==
    Analyze("detect_worm", <<start_node, override>>,
            DetectWorm(gorder, gadj, thr, start_node, override))

DetectC2Call ==
    Analyze("detect_c2", <<>>, DetectC2(gorder, gadj, thr))

DetectAllCall(room) ==
    LET outcome == DetectAllOutcome(gorder, gadj, thr)
    IN  /\ Len(history) + Len(outcome.alerts) <= room
        /\ call' = [op |-> "detect_all", args |-> <<>>]
        /\ result' = outcome.alerts
        /\ raised' = outcome.exc
        /\ history' = HistoryAfterPass(history, gorder, gadj, thr)
        /\ UNCHANGED <<nodes, edges, gorder, gadj, thr, stats>>

GetStatisticsCall ==
    /\ stats' = Statistics(history)
    /\ call' = [op |-> "get_statistics", args |-> <<>>]
    /\ result' = <<>>
    /\ raised' = "none"
    /\ UNCHANGED <<nodes, edges, gorder, gadj, thr, history>>

-----------------------------------------------------------------------------
(* main.update_thresholds: every field of the request is optional. *)

ThresholdNames ==
    {"ddos_indegree", "port_scan_outdegree", "worm_reachability",
     "c2_indegree_min", "c2_outdegree_max"}

ThresholdsAfterUpdate(old, req) ==
    [k \in ThresholdNames |-> IF IsNone(req[k]) THEN old[k] ELSE Value(req[k])]

UpdateThresholds(req) ==
    /\ thr' = ThresholdsAfterUpdate(thr, req)
    /\ call' = [op |-> "update_thresholds", args |-> <<>>]
    /\ result' = <<>>
    /\ raised' = "none"
    /\ UNCHANGED <<nodes, edges, gorder, gadj, history, stats>>

\* a request that sets the one field k to v
OneField(k, v) == [x \in ThresholdNames |-> IF x = k THEN Some(v) ELSE None]

-----------------------------------------------------------------------------
(* AttackSimulator.generate_network_topology: the store is cleared, node_count *)
(* nodes node_0.. are added, then up to edge_count random edges between        *)
(* distinct nodes; random.choice raises IndexError on an empty node list.      *)

GenerateTopology(node_count, edge_count, nattr, chosen, eattr) ==
    LET ids == {NodeName(i) : i \in 0..(node_count - 1)}
        fails == node_count <= 0 /\ edge_count > 0
        added == IF fails THEN {} ELSE chosen
    IN  /\ chosen \subseteq {e \in ids \X ids : e[1] # e[2]}
        /\ Cardinality(chosen) <= edge_count
        /\ nodes' = [id \in ids |-> nattr]
        /\ gorder' = [i \in 1..Cardinality(ids) |-> NodeName(i - 1)]
        /\ edges' = [e \in added |-> eattr]
        /\ gadj' = [e \in added |-> eattr]
        /\ call' = [op |-> "generate_network_topology", args |-> <<node_count, edge_count>>]
        /\ result' = <<>>
        /\ raised' = IF fails THEN "IndexError" ELSE "none"
        /\ UNCHANGED <<thr, history, stats>>

StoreStep(ids, attrs) ==
    \/ \E id \in ids, a \in attrs : AddNode(id, a)
    \/ \E s \in ids, t \in ids, a \in attrs : AddEdge(s, t, a)
    \/ \E id \in ids : RemoveNode(id)
    \/ \E s \in ids, t \in ids : RemoveEdge(s, t)

\* the store alone, on three ids
NextStore == StoreStep(StoreIds, OneAttr)

SpecStore == Init /\ [][NextStore]_vars

\* the store alone, on two ids, with attributes that differ
NextUpsert == StoreStep(SmallIds, Attrs)

SpecUpsert == Init /\ [][NextUpsert]_vars

-----------------------------------------------------------------------------------------------------------------------------------------------------
(* The whole system: store mutations, regeneration, threshold updates, the   *)
(* five analyzers, detect_all_attacks and the statistics, on few inputs.     *)

\* the id a caller supplies in the full specification (regeneration adds more)
CallerIds == {NodeName(0)}

\* threshold updates a caller sends in the full specification
SmallRequests ==
    {OneField("ddos_indegree", 0),
     [ddos_indegree |-> None, port_scan_outdegree |-> Some(30),
      worm_reachability |-> Some(100), c2_indegree_min |-> Some(1),
      c2_outdegree_max |-> Some(5)]}

Next ==
    \/ StoreStep(CallerIds, OneAttr)
    \/ \E n \in 0..2, m \in 0..1 :
          \E chosen \in {{}} \cup {{<<NodeName(i), NodeName(1 - i)>>} : i \in 0..1} :
             GenerateTopology(n, m, "v1", chosen, "v1")
    \/ \E req \in SmallRequests : UpdateThresholds(req)
    \/ \E o \in {None, Some(1)} : DetectDDoSCall(o)
    \/ DetectBotnetCall
    \/ \E o \in {None, Some(0)} : DetectPortScanCall(o)
    \/ \E st \in {None, Some(NodeName(0))} : DetectWormCall(st, None)
    \/ DetectC2Call
    \/ DetectAllCall(MaxHist)
    \/ GetStatisticsCall

Spec == Init /\ [][Next]_vars

-----------------------------------------------------------------------------------------------------------------------------------------------------
(* Analyzer inputs: store states built by add_node and add_edge calls, drawn *)
(* from families of graphs on consecutive ids of IdList (so that the first   *)
(* node is the empty-string id in some and not in others).                   *)

IdRun(offset, n) == [i \in 1..n |-> IdList[offset + i - 1]]

PathEdges(ns) == {<<ns[i], ns[i + 1]>> : i \in 1..(Len(ns) - 1)}

CycleEdges(ns) ==
    IF ns = <<>> THEN {} ELSE PathEdges(ns) \cup {<<ns[Len(ns)], ns[1]>>}

\* the same cycle against the iteration order
BackCycleEdges(ns) == {<<e[2], e[1]>> : e \in CycleEdges(ns)}

InStarEdges(ns) == {<<ns[i], ns[1]>> : i \in 2..Len(ns)}

OutStarEdges(ns) == {<<ns[1], ns[i]>> : i \in 2..Len(ns)}

Pairs(ns) == Range(ns) \X Range(ns)

\* a shape alone, and the shape with any one more edge
WithExtraEdge(ns, es) == {es} \cup {es \cup {e} : e \in Pairs(ns)}

Runs(offsets) == {IdRun(offset, n) : offset \in offsets, n \in 0..MaxNodes}

Graph(ns, es) == [order |-> ns, adj |-> es]

PathGraphs(offsets) ==
    UNION {{Graph(ns, es) : es \in WithExtraEdge(ns, PathEdges(ns))} : ns \in Runs(offsets)}

CycleGraphs(offsets) ==
    UNION {{Graph(ns, es) : es \in WithExtraEdge(ns, CycleEdges(ns))} : ns \in Runs(offsets)}

BackCycleGraphs(offsets) ==
    UNION {{Graph(ns, es) : es \in WithExtraEdge(ns, BackCycleEdges(ns))} :
             ns \in Runs(offsets)}

InStarGraphs(offsets) ==
    UNION {{Graph(ns, es) : es \in WithExtraEdge(ns, InStarEdges(ns))} : ns \in Runs(offsets)}

OutStarGraphs(offsets) ==
    UNION {{Graph(ns, es) : es \in WithExtraEdge(ns, OutStarEdges(ns))} : ns \in Runs(offsets)}

\* the store after add_node of every node of g, then add_edge of every edge
InitWith(g, thresholds) ==
    /\ nodes = [id \in Range(g.order) |-> "v1"]
    /\ edges = [e \in g.adj |-> "v1"]
    /\ gorder = g.order
    /\ gadj = [e \in g.adj |-> "v1"]
    /\ thr = thresholds
    /\ history = <<>>
    /\ call = [op |-> "init"]
    /\ result = <<>>
    /\ stats = NoStats
    /\ raised = "none"

ThresholdValues == (-1)..MaxThreshold

Overrides == {None} \cup {Some(v) : v \in ThresholdValues}

\* the threshold sets update_thresholds leaves: untouched, or every field v
UniformThresholds ==
    {DefaultThresholds}
    \cup {ThresholdsAfterUpdate(DefaultThresholds, [k \in ThresholdNames |-> Some(v)]) :
            v \in ThresholdValues}

-----------------------------------------------------------------------------
(* The analyzers and one aggregate pass on the drawn graphs. *)

\* more alerts than one pass returns on these graphs
PassRoom == 64

InitAnalyze ==
    \E g \in CycleGraphs({1}) \cup InStarGraphs({1}) \cup OutStarGraphs({1}),
       t \in UniformThresholds : InitWith(g, t)

NextAnalyze ==
    \/ \E o \in Overrides : DetectDDoSCall(o)
    \/ DetectBotnetCall
    \/ \E o \in {None, Some(0)} : DetectPortScanCall(o)
    \/ \E st \in {None, Some(IdList[2])}, o \in {None, Some(0)} :
          DetectWormCall(st, o)
    \/ DetectC2Call
    \/ history = <<>> /\ DetectAllCall(PassRoom)

SpecAnalyze == InitAnalyze /\ [][NextAnalyze]_vars

-----------------------------------------------------------------------------
(* Worm detection on the drawn paths. *)

InitWorm ==
    \E g \in PathGraphs({1, 2}),
       t \in {DefaultThresholds,
              ThresholdsAfterUpdate(DefaultThresholds, OneField("worm_reachability", 1))} :
       InitWith(g, t)

NextWorm ==
    \E st \in {None} \cup {Some(id) : id \in FirstIds(3)},
       o \in {None} \cup {Some(v) : v \in (-1)..(MaxNodes + 1)} :
       DetectWormCall(st, o)

SpecWorm == InitWorm /\ [][NextWorm]_vars

-----------------------------------------------------------------------------
(* Botnet detection on the drawn cycles. *)

InitBotnet ==
    \E g \in CycleGraphs({1, 2}) \cup BackCycleGraphs({1, 2}) :
       InitWith(g, DefaultThresholds)

NextBotnet == DetectBotnetCall

SpecBotnet == InitBotnet /\ [][NextBotnet]_vars

-----
(* Claims about the graph store. *)

Incident(e, id) == e[1] = id \/ e[2] = id

\* C1: after remove_node(id) on a node the store holds, no edge with id as
\* source or target is left, neither in the edge records (what the snapshot
\* lists) nor in the adjacency index.
C1_RemoveNodeRemovesIncidentEdges ==
    (call.op = "remove_node" /\ call.present) =>
        /\ \A e \in DOMAIN edges : ~Incident(e, call.id)
        /\ \A e \in DOMAIN gadj : ~Incident(e, call.id)

\* C2: no add_node, add_edge, remove_node or remove_edge call raises.
C2_MutationsNeverRaise ==
    call.op \in {"add_node", "add_edge", "remove_node", "remove_edge"} =>
        raised = "none"

DegreesUnchanged ==
    \A n \in Range(gorder) \cup Range(gorder') :
        /\ InDegree(gadj', n) = InDegree(gadj, n)
        /\ OutDegree(gadj', n) = OutDegree(gadj, n)

\* C3: add_node on an id that has a record, and add_edge on a pair that has a
\* record, leave one record for the key holding the new attributes, add no
\* edge, and leave every indegree and outdegree as it was.
C3_UpsertByKey ==
    [][/\ (/\ call'.op = "add_node"
           /\ call'.id \in DOMAIN nodes
           /\ nodes[call'.id] # call'.attr) =>
              /\ DOMAIN nodes' = DOMAIN nodes
              /\ nodes'[call'.id] = call'.attr
              /\ DOMAIN gadj' = DOMAIN gadj
              /\ DegreesUnchanged
       /\ (/\ call'.op = "add_edge"
           /\ <<call'.source, call'.target>> \in DOMAIN edges
           /\ edges[<<call'.source, call'.target>>] # call'.attr) =>
              /\ DOMAIN edges' = DOMAIN edges
              /\ edges'[<<call'.source, call'.target>>] = call'.attr
              /\ DOMAIN gadj' = DOMAIN gadj
              /\ DegreesUnchanged]_vars

-----------------------------------------------------------------------------
(* Claims about the detection history. *)

IsPrefix(s, t) == Len(s) <= Len(t) /\ SubSeq(t, 1, Len(s)) = s

\* C4: the history only grows at its end: a detect_all_attacks call that
\* returns appends exactly the batch it returns, in that order, and no other
\* step changes the history.
C4_HistoryAppendOnly ==
    [][/\ IsPrefix(history, history')
       /\ IF call'.op = "detect_all" /\ raised' = "none"
          THEN history' = history \o result'
          ELSE history' = history]_vars

\* a second pass has appended its batch behind an earlier one
C4_Witness ==
    /\ call.op = "detect_all"
    /\ raised = "none"
    /\ result # <<>>
    /\ Len(history) > Len(result)

-----------------------------------------------------------------------------
(* Claims about the analyzers. *)

DetectOps ==
    {"detect_ddos", "detect_botnet", "detect_port_scan", "detect_worm", "detect_c2",
     "detect_all"}

Returned == raised = "none"

\* the position of detect_all_attacks' analyzers: DDoS, botnet, port scan, worm, C2
EmissionRank(type) ==
    CASE type = "ddos" -> 1
      [] type = "botnet" -> 2
      [] type = "port_scan" -> 3
      [] type = "worm" -> 4
      [] type = "c2" -> 5

\* what the analyzer of this attack type returns on the current state
OutputOf(type) ==
    CASE type = "ddos" -> DetectDDoS(gorder, gadj, thr, None).alerts
      [] type = "botnet" -> DetectBotnet(gorder, gadj).alerts
      [] type = "port_scan" -> DetectPortScan(gorder, gadj, thr, None).alerts
      [] type = "worm" -> DetectWorm(gorder, gadj, thr, None, None).alerts
      [] type = "c2" -> DetectC2(gorder, gadj, thr).alerts

PositionIn(seq, x) == CHOOSE i \in 1..Len(seq) : seq[i] = x

EmittedBefore(a, b) ==
    \/ EmissionRank(a.attack_type) < EmissionRank(b.attack_type)
    \/ /\ a.attack_type = b.attack_type
       /\ PositionIn(OutputOf(a.attack_type), a) < PositionIn(OutputOf(a.attack_type), b)

SameKey(a, b) == a.severity = b.severity /\ a.confidence = b.confidence

\* C5: the list detect_all_attacks returns holds every emitted alert once, by
\* severity rank descending, then confidence descending; alerts equal in both
\* keep their emission order (analyzer order, then the analyzer's own order).
C5_DetectAllOrdered ==
    (call.op = "detect_all" /\ Returned) =>
        /\ Len(result) = Len(Flatten([i \in 1..5 |-> OutputOf(
               CHOOSE t \in AttackTypes : EmissionRank(t) = i)]))
        /\ \A t \in AttackTypes : Range(OutputOf(t)) \subseteq Range(result)
        /\ \A i, j \in 1..Len(result) :
              i < j =>
                 \/ SeverityOrder(result[i].severity) > SeverityOrder(result[j].severity)
                 \/ /\ result[i].severity = result[j].severity
                    /\ QLess(result[j].confidence, result[i].confidence)
                 \/ /\ SameKey(result[i], result[j])
                    /\ EmittedBefore(result[i], result[j])

\* one pass with both severities, a tie across analyzers and a tie within one
C5_Witness ==
    /\ call.op = "detect_all"
    /\ Returned
    /\ \E i, j \in 1..Len(result) : result[i].severity # result[j].severity
    /\ \E i, j \in 1..Len(result) :
          /\ i < j
          /\ SameKey(result[i], result[j])
          /\ result[i].attack_type # result[j].attack_type
    /\ \E i, j \in 1..Len(result) :
          /\ i < j
          /\ SameKey(result[i], result[j])
          /\ result[i].attack_type = result[j].attack_type
    /\ \E i, j \in 1..Len(result) :
          /\ result[i].severity = result[j].severity
          /\ result[i].confidence # result[j].confidence

InUnitInterval(q) == ~QLess(q, Zero) /\ ~QLess(One, q)

\* C6: every alert an analyzer returns and every alert in the history has a
\* confidence in [0, 1], whatever integers the thresholds are.
C6_ConfidenceInUnitInterval ==
    /\ \A i \in 1..Len(result) : InUnitInterval(result[i].confidence)
    /\ \A i \in 1..Len(history) : InUnitInterval(history[i].confidence)

\* C7: no analyzer call and no detect_all_attacks call raises, whatever the
\* graph and whatever integers the thresholds are (0 included).
C7_AnalyzersNeverRaise == call.op \in DetectOps => Returned

\* the threshold a detect_ddos_attack / detect_port_scan_attack call decided with
UsedThreshold(name) ==
    IF IsNone(call.args[1]) THEN thr[name] ELSE Value(call.args[1])

\* C8: detect_ddos_attack with threshold T returns one alert per node whose
\* indegree is greater than T, with that node as target and its predecessors
\* as sources, and nothing else.
C8_DDoSExactlyFlagged ==
    call.op = "detect_ddos" =>
        LET T == UsedThreshold("ddos_indegree")
            flagged == {n \in Range(gorder) : InDegree(gadj, n) > T}
        IN  /\ Returned
            /\ Len(result) = Cardinality(flagged)
            /\ \A n \in flagged :
                  \E i \in 1..Len(result) :
                     /\ result[i].attack_type = "ddos"
                     /\ result[i].target_nodes = {n}
                     /\ result[i].source_nodes = Predecessors(gadj, n)

\* the graph is the directed path gorder[1] -> gorder[2] -> ... and nothing else
IsPath == gorder # <<>> /\ DOMAIN gadj = PathEdges(gorder)

\* a detect_worm_propagation call with the head of that path as start_node
WormFromPathHead ==
    /\ call.op = "detect_worm"
    /\ IsPath
    /\ call.args[1] = Some(gorder[1])

WormThreshold ==
    IF IsNone(call.args[2]) THEN thr.worm_reachability ELSE Value(call.args[2])

\* C9 as stated: on a path of N+1 nodes, started at its head with threshold T,
\* one worm alert with N targets when T < N, and no alert when T >= N.  The
\* calls that fail for another reason (T = 0, which raises, and the
\* empty-string start node, which is taken as none given) are left aside,
\* and the path has at least one edge.
C9_WormPathAsStated ==
    (WormFromPathHead /\ Len(gorder) >= 2 /\ gorder[1] # "" /\ WormThreshold # 0) =>
        LET N == Len(gorder) - 1
        IN  /\ Returned
            /\ IF WormThreshold < N
               THEN /\ Len(result) = 1
                    /\ result[1].attack_type = "worm"
                    /\ Cardinality(result[1].target_nodes) = N
               ELSE result = <<>>

\* C9 amended: the reachable set counts the start node, so it has N+1
\* elements: no alert when T >= N+1; when T < N+1 one worm alert from the head
\* with the N+1 path nodes as targets, except that T = 0 raises
\* ZeroDivisionError and an empty-string start node is taken as none given,
\* which on a path leaves no candidate and no alert.
C9_WormPathCountsStart ==
    WormFromPathHead =>
        LET N == Len(gorder) - 1
            T == WormThreshold
        IN  IF gorder[1] = "" \/ T >= N + 1 THEN Returned /\ result = <<>>
            ELSE IF T = 0 THEN raised = "ZeroDivisionError"
            ELSE /\ Returned
                 /\ Len(result) = 1
                 /\ result[1].attack_type = "worm"
                 /\ result[1].source_nodes = {gorder[1]}
                 /\ result[1].target_nodes = Range(gorder)
                 /\ Cardinality(result[1].target_nodes) = N + 1

\* the threshold equals N on a path of N+1 >= 3 nodes, and the alert is there
C9_Witness ==
    /\ WormFromPathHead
    /\ Len(gorder) >= 3
    /\ WormThreshold = Len(gorder) - 1
    /\ Returned
    /\ Len(result) = 1
    /\ Cardinality(result[1].target_nodes) = Len(gorder)

\* the graph is one directed cycle through all its nodes and has no other edge
IsSingleCycle ==
    /\ gorder # <<>>
    /\ \A n \in Range(gorder) : InDegree(gadj, n) = 1 /\ OutDegree(gadj, n) = 1
    /\ BfsReachable(gadj, gorder[1]) = Range(gorder)

\* the list walks the cycle: each node has an edge to the next, the last to the first
WalksCycle(c) ==
    \A i \in 1..Len(c) : <<c[i], c[(i % Len(c)) + 1]>> \in DOMAIN gadj

\* C10: on a single directed cycle of k nodes, detect_botnet_attack returns one
\* alert when k >= 3, its source and target lists being the k cycle nodes,
\* with severity high iff k >= 5, and returns no alert when k < 3.
C10_BotnetSingleCycle ==
    (call.op = "detect_botnet" /\ IsSingleCycle) =>
        LET k == Len(gorder)
        IN  /\ Returned
            /\ IF k >= 3
               THEN /\ Len(result) = 1
                    /\ result[1].attack_type = "botnet"
                    /\ Len(result[1].source_nodes) = k
                    /\ Len(result[1].target_nodes) = k
                    /\ Range(result[1].source_nodes) = Range(gorder)
                    /\ Range(result[1].target_nodes) = Range(gorder)
                    /\ WalksCycle(result[1].source_nodes)
                    /\ (result[1].severity = "high") = (k >= 5)
                    /\ (result[1].severity = "medium") = (k < 5)
               ELSE result = <<>>

\* a cycle of exactly five nodes has been reported, with high severity
C10_Witness ==
    /\ call.op = "detect_botnet"
    /\ IsSingleCycle
    /\ Len(gorder) = 5
    /\ Len(result) = 1
    /\ result[1].severity = "high"

-----------------------------------------------------------------------------
(* C2 detection on the drawn stars, under every pair of C2 thresholds. *)

C2Thresholds ==
    {ThresholdsAfterUpdate(DefaultThresholds,
        [OneField("c2_indegree_min", lo) EXCEPT !["c2_outdegree_max"] = Some(hi)]) :
        lo \in ThresholdValues, hi \in ThresholdValues}

InitC2 ==
    \E g \in InStarGraphs({1, 2}), t \in C2Thresholds : InitWith(g, t)

NextC2 == DetectC2Call

SpecC2 == InitC2 /\ [][NextC2]_vars

\* the graph is a star: every node but the first has one edge, into the first,
\* and there is no other edge
IsInStar == gorder # <<>> /\ DOMAIN gadj = InStarEdges(gorder)

Hub == gorder[1]

Leaves == Range(gorder) \ {Hub}

\* the one alert for the hub, with the leaves as sources
HubAlertOnly ==
    /\ Returned
    /\ Len(result) = 1
    /\ result[1].attack_type = "c2"
    /\ result[1].target_nodes = {Hub}
    /\ result[1].source_nodes = Leaves

\* C11 as stated: on a star of M leaves into a hub with no outgoing edge,
\* under every threshold set with M >= c2_indegree_min and
\* 0 <= c2_outdegree_max, detect_c2_attack returns exactly one alert, for the
\* hub, with the M leaves as sources.  The sets with c2_indegree_min = 0, on
\* which the call raises, are left aside.
C11_StarAsStated ==
    (/\ call.op = "detect_c2"
     /\ IsInStar
     /\ Cardinality(Leaves) >= thr.c2_indegree_min
     /\ 0 <= thr.c2_outdegree_max
     /\ thr.c2_indegree_min # 0) => HubAlertOnly

\* C11 amended: with 1 <= c2_indegree_min <= M and 0 <= c2_outdegree_max the
\* result is the one hub alert; with c2_indegree_min = 0 the call raises
\* ZeroDivisionError; with c2_indegree_min < 0 the hub alert comes with one
\* alert per leaf when 1 <= c2_outdegree_max (a leaf has indegree 0 and
\* outdegree 1), and alone when c2_outdegree_max = 0.
C11_StarHubAlert ==
    (/\ call.op = "detect_c2"
     /\ IsInStar
     /\ Cardinality(Leaves) >= thr.c2_indegree_min
     /\ 0 <= thr.c2_outdegree_max) =>
        IF thr.c2_indegree_min = 0 THEN raised = "ZeroDivisionError"
        ELSE IF thr.c2_indegree_min >= 1 \/ thr.c2_outdegree_max = 0
             THEN HubAlertOnly
        ELSE /\ Returned
             /\ Len(result) = Cardinality(Leaves) + 1
             /\ \E i \in 1..Len(result) :
                   /\ result[i].target_nodes = {Hub}
                   /\ result[i].source_nodes = Leaves
             /\ \A n \in Leaves :
                   \E i \in 1..Len(result) :
                      /\ result[i].target_nodes = {n}
                      /\ result[i].source_nodes = {}

\* a star whose number of leaves equals c2_indegree_min >= 2, and its hub alert
C11_Witness ==
    /\ call.op = "detect_c2"
    /\ IsInStar
    /\ thr.c2_indegree_min >= 2
    /\ Cardinality(Leaves) = thr.c2_indegree_min
    /\ 0 <= thr.c2_outdegree_max
    /\ HubAlertOnly

-----------------------------------------------------------------------------
(* Statistics over the history that detect_all_attacks passes build up. *)

\* the history length up to which a pass is taken
MaxStatsHist == 6

\* every node but the first two has an edge into each of the first two
TwoHubEdges(ns) == {<<ns[i], ns[j]>> : i \in 3..Len(ns), j \in {1, 2}}

TwoHubGraphs(offsets) ==
    UNION {{Graph(ns, es) : es \in WithExtraEdge(ns, TwoHubEdges(ns))} : ns \in Runs(offsets)}

\* ddos_indegree 1 and c2_indegree_min lo
StatsThresholds ==
    {ThresholdsAfterUpdate(DefaultThresholds,
        [OneField("ddos_indegree", 1) EXCEPT !["c2_indegree_min"] = Some(lo)]) :
        lo \in {2, 3}}

InitStats ==
    \E g \in TwoHubGraphs({2}), t \in StatsThresholds : InitWith(g, t)

NextStats ==
    \/ DetectAllCall(MaxStatsHist)
    \/ GetStatisticsCall
    \/ \E lo \in {0, 2} : UpdateThresholds(OneField("c2_indegree_min", lo))

SpecStats == InitStats /\ [][NextStats]_vars

\* the sum of the counts of a count dict
RECURSIVE SumOf(_)
SumOf(f) ==
    IF DOMAIN f = {} THEN 0
    ELSE LET k == CHOOSE x \in DOMAIN f : TRUE
         IN  f[k] + SumOf([x \in DOMAIN f \ {k} |-> f[x]])

HistoryIndexes(Test(_)) == {i \in 1..Len(history) : Test(history[i])}

\* the history is one batch of 2 DDoS alerts and 1 C2 alert
TwoDDoSOneC2 ==
    /\ Len(history) = 3
    /\ Cardinality(HistoryIndexes(LAMBDA a : a.attack_type = "ddos")) = 2
    /\ Cardinality(HistoryIndexes(LAMBDA a : a.attack_type = "c2")) = 1

\* C12: get_attack_statistics returns the empty result exactly when the
\* history is empty; otherwise total_attacks is the history length (repeated
\* passes counted again), the per-kind counts and the per-severity counts are
\* the numbers of history alerts of that kind and severity and each sum to the
\* total, and high_confidence_attacks is the number of history alerts with
\* confidence > 0.8; after one pass of 2 DDoS and 1 C2 alert it reports total 3
\* and attack_types {ddos: 2, c2: 1}.
C12_Statistics ==
    call.op = "get_statistics" =>
        /\ (stats.kind = "empty") <=> (history = <<>>)
        /\ history # <<>> =>
              /\ stats.kind = "data"
              /\ stats.total_attacks = Len(history)
              /\ \A t \in DOMAIN stats.attack_types :
                    stats.attack_types[t] =
                        Cardinality(HistoryIndexes(LAMBDA a : a.attack_type = t))
              /\ \A v \in DOMAIN stats.severity_distribution :
                    stats.severity_distribution[v] =
                        Cardinality(HistoryIndexes(LAMBDA a : a.severity = v))
              /\ SumOf(stats.attack_types) = Len(history)
              /\ SumOf(stats.severity_distribution) = Len(history)
              /\ stats.high_confidence_attacks =
                    Cardinality(HistoryIndexes(LAMBDA a : QLess(<<4, 5>>, a.confidence)))
        /\ TwoDDoSOneC2 =>
              /\ stats.total_attacks = 3
              /\ stats.attack_types = [t \in {"ddos", "c2"} |-> IF t = "ddos" THEN 2 ELSE 1]

\* statistics taken after two passes of 2 DDoS alerts and 1 C2 alert each,
\* some of the alerts above 0.8 and some not
C12_Witness ==
    /\ call.op = "get_statistics"
    /\ Len(history) = 6
    /\ stats.kind = "data"
    /\ stats.total_attacks = 6
    /\ stats.attack_types = [t \in {"ddos", "c2"} |-> IF t = "ddos" THEN 4 ELSE 2]
    /\ stats.high_confidence_attacks \in 1..5

\* the alerts of the analyzers that returned before the first one that raised
CompletedBeforeFailure ==
    LET runs == AnalyzerRuns(gorder, gadj, thr)
        failed == {i \in 1..Len(runs) : runs[i].exc # "none"}
    IN  IF failed = {} THEN <<>>
        ELSE Emitted(SubSeq(runs, 1, (CHOOSE i \in failed : \A j \in failed : i <= j) - 1))

\* C13: a detect_all_attacks pass in which an analyzer raises appends nothing
\* to the history: the history after the call is the history before it, with
\* no alert of an analyzer that returned earlier in the pass.
C13_FailedPassStoresNothing ==
    [][(call'.op = "detect_all" /\ raised' # "none") => history' = history]_vars

\* a failed pass on a history that holds an earlier batch, after the DDoS
\* analyzer of the failed pass had returned alerts
C13_Witness ==
    /\ call.op = "detect_all"
    /\ raised = "ZeroDivisionError"
    /\ history # <<>>
    /\ CompletedBeforeFailure # <<>>
    /\ \A i \in 1..Len(CompletedBeforeFailure) :
          CompletedBeforeFailure[i].attack_type = "ddos"

\* C14: no analyzer mutates the graph: each of the five analyzers and
\* detect_all_attacks leaves the node records, the edge records, the adjacency
\* index and the thresholds unchanged, and a call that directly follows the
\* same call, with no mutation or threshold update in between, has the same
\* outcome.
C14_AnalyzersReadOnly ==
    [][call'.op \in DetectOps =>
          /\ UNCHANGED <<nodes, edges, gorder, gadj, thr>>
          /\ (call.op = call'.op /\ call.args = call'.args) =>
                (result' = result /\ raised' = raised)]_vars

\* two detect_all_attacks passes in a row on a graph with edges, each
\* returning the same alert
C14_Witness ==
    /\ call.op = "detect_all"
    /\ DOMAIN gadj # {}
    /\ result # <<>>
    /\ history = result \o result

-----------------------------------------------------------------------------
(* Threshold updates between analyzer calls, on small stars and cycles. *)

\* the largest star or cycle of this specification
SmallShape == 3

SmallShapes ==
    UNION {{Graph(ns, InStarEdges(ns)), Graph(ns, OutStarEdges(ns)),
            Graph(ns, CycleEdges(ns))} : ns \in {IdRun(2, n) : n \in 0..SmallShape}}

\* the fields a caller sets, one a request, and the values they are set to
UpdatedNames ==
    {"ddos_indegree", "port_scan_outdegree", "worm_reachability", "c2_indegree_min"}

UpdatedValues == {1, 2}

InitThresholds == \E g \in SmallShapes : InitWith(g, DefaultThresholds)

NextThresholds ==
    \/ \E k \in UpdatedNames, v \in UpdatedValues : UpdateThresholds(OneField(k, v))
    \/ \E o \in {None, Some(0), Some(1)} : DetectDDoSCall(o)
    \/ DetectBotnetCall
    \/ \E o \in {None, Some(0), Some(1)} : DetectPortScanCall(o)
    \/ \E st \in {None, Some(IdList[2])}, o \in {None, Some(1)} : DetectWormCall(st, o)
    \/ DetectC2Call
    \/ history = <<>> /\ DetectAllCall(PassRoom)

SpecThresholds == InitThresholds /\ [][NextThresholds]_vars

\* the targets and the sources of the returned alerts of one kind
TargetsOf(type) ==
    {result[i].target_nodes : i \in {j \in 1..Len(result) : result[j].attack_type = type}}

SourcesOf(type) ==
    {result[i].source_nodes : i \in {j \in 1..Len(result) : result[j].attack_type = type}}

\* the override of a call if it gave one, the stored value otherwise
Pick(override, stored) == IF IsNone(override) THEN stored ELSE Value(override)

DDoSDecidedWith(T) ==
    TargetsOf("ddos") = {{n} : n \in {m \in Range(gorder) : InDegree(gadj, m) > T}}

PortScanDecidedWith(T) ==
    SourcesOf("port_scan") = {{n} : n \in {m \in Range(gorder) : OutDegree(gadj, m) > T}}

WormDecidedWith(start_node, T) ==
    SourcesOf("worm") =
        {{c} : c \in {d \in Range(WormCandidates(gorder, gadj, start_node)) \cap Range(gorder) :
                         Cardinality(BfsReachable(gadj, d)) > T}}

C2DecidedWith(lo, hi) ==
    TargetsOf("c2") =
        {{n} : n \in {m \in Range(gorder) :
                         InDegree(gadj, m) >= lo /\ OutDegree(gadj, m) <= hi}}

\* the outcome of the last call is the one the stored thresholds, or the
\* override of the call, give: what was flagged, and a division by zero only
\* with a threshold of 0
DecidedWithStored ==
    /\ call.op = "detect_ddos" =>
          LET T == Pick(call.args[1], thr.ddos_indegree)
          IN  IF Returned THEN DDoSDecidedWith(T) ELSE T = 0
    /\ call.op = "detect_port_scan" =>
          LET T == Pick(call.args[1], thr.port_scan_outdegree)
          IN  IF Returned THEN PortScanDecidedWith(T) ELSE T = 0
    /\ call.op = "detect_worm" =>
          LET T == Pick(call.args[2], thr.worm_reachability)
          IN  IF Returned THEN WormDecidedWith(call.args[1], T) ELSE T = 0
    /\ call.op = "detect_c2" =>
          IF Returned THEN C2DecidedWith(thr.c2_indegree_min, thr.c2_outdegree_max)
          ELSE thr.c2_indegree_min = 0
    /\ call.op = "detect_all" =>
          IF Returned
          THEN /\ DDoSDecidedWith(thr.ddos_indegree)
               /\ PortScanDecidedWith(thr.port_scan_outdegree)
               /\ WormDecidedWith(None, thr.worm_reachability)
               /\ C2DecidedWith(thr.c2_indegree_min, thr.c2_outdegree_max)
          ELSE 0 \in {thr.ddos_indegree, thr.port_scan_outdegree,
                       thr.worm_reachability, thr.c2_indegree_min}

\* C15: thresholds are read on every call: each analyzer call, and each
\* detect_all_attacks pass, decides with the threshold set as stored at the
\* call, whatever an earlier call saw; a per-call override decides that call
\* only and leaves the stored set unchanged.
C15_ThresholdsReadFresh ==
    /\ []DecidedWithStored
    /\ [][call'.op \in DetectOps => thr' = thr]_vars

\* a DDoS call without override, after updates of ddos_indegree and of
\* c2_indegree_min, that flags the one node above the stored 1, which the
\* threshold of construction would not flag
C15_Witness ==
    /\ call.op = "detect_ddos"
    /\ call.args[1] = None
    /\ thr.ddos_indegree = 1
    /\ thr.c2_indegree_min = 2
    /\ Len(result) = 1
    /\ \E n \in Range(gorder) : InDegree(gadj, n) = 2

-----------------------------------------------------------------------------
(* Botnet detection on dense graphs: every ordered pair of distinct nodes is
   an edge, but for at most two pairs. *)

\* the number of nodes of the largest dense graph
DenseNodes == 4

DenseEdges(ns) == {e \in Pairs(ns) : e[1] # e[2]}

DenseGraphs(offsets) ==
    UNION {{Graph(ns, DenseEdges(ns) \ gone) :
              gone \in {g \in SUBSET DenseEdges(ns) : Cardinality(g) <= 2}} :
           ns \in {IdRun(offset, n) : offset \in offsets, n \in 0..DenseNodes}}

InitDense == \E g \in DenseGraphs({1, 2}) : InitWith(g, DefaultThresholds)

NextDense == DetectBotnetCall

SpecDense == InitDense /\ [][NextDense]_vars

\* a maximum number of cycles for one pass; the code configures none
CycleCap == 10

\* C16: the cycles enumerated by botnet detection, and with them the botnet
\* alerts of one pass, never exceed a configured maximum: on every graph, the
\* dense ones included, detect_botnet_attack returns at most CycleCap alerts or
\* signals the limit.  (The code returns one alert for every simple cycle of
\* three or more nodes: 2 on the complete graph of 3 nodes, 14 on that of 4,
\* 74 on that of 5.)
C16_CyclesCapped ==
    call.op = "detect_botnet" => (Len(result) <= CycleCap \/ raised # "none")

\* the candidates as described: the supplied start node, any id, or without
\* one the nodes with more than WormFanOutFloor outgoing edges
StatedCandidates ==
    IF IsNone(call.args[1])
    THEN {n \in Range(gorder) : OutDegree(gadj, n) > WormFanOutFloor}
    ELSE {Value(call.args[1])}

\* C17: detect_worm_propagation with a start node supplied, the empty string
\* included, has that node as its only candidate and returns the empty list
\* when it is not in the graph; with none supplied the candidates are the
\* nodes with outdegree > 5; each candidate gives one alert if its
\* reachable set is larger than the threshold and none otherwise.  The calls
\* with threshold 0, which raise, are left aside.
C17_WormCandidates ==
    (call.op = "detect_worm" /\ WormThreshold # 0) =>
        LET flagged == {c \in StatedCandidates \cap Range(gorder) :
                          Cardinality(BfsReachable(gadj, c)) > WormThreshold}
        IN  /\ Returned
            /\ Len(result) = Cardinality(flagged)
            /\ SourcesOf("worm") = {{c} : c \in flagged}

\* C18: after any sequence of add_node, add_edge, remove_node and remove_edge
\* the node records and the adjacency index hold the same node ids, so both
\* ends of every edge are recorded nodes, and a node remove_node was called
\* for is no longer a node of the adjacency index, where degree and neighbor
\* queries and the analyzers would see it.
C18_IndexesAgreeOnNodes ==
    /\ DOMAIN nodes = Range(gorder)
    /\ \A e \in DOMAIN gadj \cup DOMAIN edges : e[1] \in DOMAIN nodes /\ e[2] \in DOMAIN nodes
    /\ call.op = "remove_node" => call.id \notin Range(gorder)

====
